---- MODULE Spec2Model ----
(***************************************************************************)
(* Model of frontend/static/dtale/serverStateManagement.ts: the column     *)
(* arrangement transformations (moveLeft, moveRight, moveToFront,          *)
(* moveToBack, lockCols, unlockCols), the state container they patch       *)
(* through propagateState, and the dispatcher functions that persist       *)
(* settings through the fetcher.                                           *)
(***************************************************************************)
EXTENDS Integers, Sequences, FiniteSets, TLC

VARIABLES
  view,       \* the view state owned by the container (DataViewerState)
  prev,       \* the transformation executed before the last one
  last,       \* the last transformation executed, with its input and effects
  snapshot,   \* props.columns as captured by the transformations built so far
  pending,    \* propagateState calls the container has not merged yet
  callbacks,  \* completion callbacks of merged patches, not invoked yet
  requests,   \* persistence requests issued through fetchJson, in send order
  log,        \* executions of transformations, in call order
  disp,       \* the last dispatcher call and what its caller observed
  logged,     \* number of logException calls made by dispatchers
  called      \* number of completion callbacks dispatchers have had invoked

vars == <<view, prev, last, snapshot, pending, callbacks, requests, log,
          disp, logged, called>>

(***************************************************************************)
(* Bounds                                                                  *)
(***************************************************************************)
Names == {"A", "B", "C"}     \* column names of the dataset
Absent == "Z"                \* a name that is in no column
Undefined == "undefined"     \* the name of a descriptor that has none
MaxCols == 3                 \* longest column sequence explored
MaxSel == 2                  \* longest selectedCols argument
MaxExec == 2                 \* executions explored from one construction
MaxLogged == 2               \* logException calls counted
MaxCalled == 2               \* completion callbacks counted

(***************************************************************************)
(* Column descriptors and the array primitives the transformations use     *)
(***************************************************************************)
ColumnDef(n, l) == [name |-> n, locked |-> l]

\* { ...undefined }: an object with no name; its missing locked flag is falsy
EmptyObject == [name |-> Undefined, locked |-> FALSE]

isLocked(column) == column.locked

isUnlocked(column) == ~column.locked

\* Array.prototype.findIndex on the name: index from 0, -1 when absent
findIndex(cols, selectedCol) ==
  IF \E i \in 1..Len(cols) : cols[i].name = selectedCol
  THEN (CHOOSE i \in 1..Len(cols) :
          /\ cols[i].name = selectedCol
          /\ \A j \in 1..(i - 1) : cols[j].name # selectedCol) - 1
  ELSE -1

\* { ...arr[idx] }: a copy of the element, or {} when idx is out of the array
SpreadAt(cols, idx) ==
  IF idx \in 0..(Len(cols) - 1) THEN cols[idx + 1] ELSE EmptyObject

\* arr[idx] = v: a negative idx sets a property and leaves the elements as
\* they are. An idx >= length is never written by moveOnePosition.
AssignAt(cols, idx, v) ==
  IF idx \in 0..(Len(cols) - 1) THEN [cols EXCEPT ![idx + 1] = v] ELSE cols

\* selectedCols.includes(name)
includes(selectedCols, name) ==
  \E i \in 1..Len(selectedCols) : selectedCols[i] = name

\* locked.find((column) => column.name === name) is truthy
findName(cols, name) == \E i \in 1..Len(cols) : cols[i].name = name

\* selectedCols[0]
FirstOf(selectedCols) ==
  IF Len(selectedCols) > 0 THEN selectedCols[1] ELSE Undefined

\* cols.map((column) => ({ ...column, locked: l }))
MapLocked(cols, l) == [i \in 1..Len(cols) |-> [cols[i] EXCEPT !.locked = l]]

(***************************************************************************)
(* Effects of a transformation: the calls it makes, in order               *)
(***************************************************************************)
\* buildCallback: a closure that issues the request when it is invoked
buildCallback(route, col, action) ==
  [route |-> route, col |-> col, action |-> action]

PropagateState(patch, callback) ==
  [type |-> "propagateState", patch |-> patch, callback |-> callback]

FetchJson(request) == [type |-> "fetchJson", request |-> request]

(***************************************************************************)
(* The transformations                                                     *)
(***************************************************************************)
\* moveOnePosition with the right-hand boundary test off by one
moveOnePositionPastEnd(selectedCol, columns, action) ==
  LET locked == SelectSeq(columns, isLocked)
      unlocked == SelectSeq(columns, isUnlocked)
      selectedIdx == findIndex(unlocked, selectedCol)
  IN  IF action = "right" /\ selectedIdx = Len(unlocked) THEN <<>>
      ELSE IF action = "left" /\ selectedIdx = 0 THEN <<>>
      ELSE
        LET moveToRightIdx == IF action = "right" THEN selectedIdx
                              ELSE selectedIdx - 1
            moveToRight == SpreadAt(unlocked, moveToRightIdx)
            moveToLeftIdx == IF action = "right" THEN selectedIdx + 1
                             ELSE selectedIdx
            moveToLeft == SpreadAt(unlocked, moveToLeftIdx)
            unlocked1 == AssignAt(unlocked, moveToRightIdx, moveToLeft)
            unlocked2 == AssignAt(unlocked1, moveToLeftIdx, moveToRight)
        IN  << PropagateState([columns |-> locked \o unlocked2,
                               triggerResize |-> TRUE],
                              buildCallback("update-column-position",
                                            selectedCol, action)) >>

\* moveOnePosition without the second assignment of the swap
moveOnePositionHalfSwap(selectedCol, columns, action) ==
  LET locked == SelectSeq(columns, isLocked)
      unlocked == SelectSeq(columns, isUnlocked)
      selectedIdx == findIndex(unlocked, selectedCol)
  IN  IF action = "right" /\ selectedIdx = Len(unlocked) - 1 THEN <<>>
      ELSE IF action = "left" /\ selectedIdx = 0 THEN <<>>
      ELSE
        LET moveToRightIdx == IF action = "right" THEN selectedIdx
                              ELSE selectedIdx - 1
            moveToLeftIdx == IF action = "right" THEN selectedIdx + 1
                             ELSE selectedIdx
            moveToLeft == SpreadAt(unlocked, moveToLeftIdx)
            unlocked1 == AssignAt(unlocked, moveToRightIdx, moveToLeft)
        IN  << PropagateState([columns |-> locked \o unlocked1,
                               triggerResize |-> TRUE],
                              buildCallback("update-column-position",
                                            selectedCol, action)) >>

moveOnePosition(selectedCol, columns, action) ==
  LET locked == SelectSeq(columns, isLocked)
      unlocked == SelectSeq(columns, isUnlocked)
      selectedIdx == findIndex(unlocked, selectedCol)
  IN  IF action = "right" /\ selectedIdx = Len(unlocked) - 1 THEN <<>>
      ELSE IF action = "left" /\ selectedIdx = 0 THEN <<>>
      ELSE
        LET moveToRightIdx == IF action = "right" THEN selectedIdx
                              ELSE selectedIdx - 1
            moveToRight == SpreadAt(unlocked, moveToRightIdx)
            moveToLeftIdx == IF action = "right" THEN selectedIdx + 1
                             ELSE selectedIdx
            moveToLeft == SpreadAt(unlocked, moveToLeftIdx)
            unlocked1 == AssignAt(unlocked, moveToRightIdx, moveToLeft)
            unlocked2 == AssignAt(unlocked1, moveToLeftIdx, moveToRight)
            finalCols == locked \o unlocked2
            callback == buildCallback("update-column-position", selectedCol,
                                      action)
        IN  << PropagateState([columns |-> finalCols, triggerResize |-> TRUE],
                              callback) >>

\* moveTo with the two edges exchanged
moveToOtherEdge(selectedCol, columns, action) ==
  LET locked == SelectSeq(columns, isLocked)
      toMove(column) == selectedCol = column.name /\ ~column.locked
      colsToMove == SelectSeq(columns, toMove)
      rest(column) == selectedCol # column.name /\ ~findName(locked, column.name)
      unselectedAndUnlockedCols == SelectSeq(columns, rest)
      finalCols == IF action = "back"
                   THEN locked \o colsToMove \o unselectedAndUnlockedCols
                   ELSE locked \o unselectedAndUnlockedCols \o colsToMove
  IN  << PropagateState([columns |-> finalCols, triggerResize |-> TRUE],
                        buildCallback("update-column-position", selectedCol,
                                      action)) >>

\* moveTo that also issues the request itself, before the patch is accepted
moveToEager(selectedCol, columns, action) ==
  LET locked == SelectSeq(columns, isLocked)
      toMove(column) == selectedCol = column.name /\ ~column.locked
      colsToMove == SelectSeq(columns, toMove)
      rest(column) == selectedCol # column.name /\ ~findName(locked, column.name)
      unselectedAndUnlockedCols == SelectSeq(columns, rest)
      finalCols == IF action = "front"
                   THEN locked \o colsToMove \o unselectedAndUnlockedCols
                   ELSE locked \o unselectedAndUnlockedCols \o colsToMove
      callback == buildCallback("update-column-position", selectedCol, action)
  IN  << FetchJson(callback),
         PropagateState([columns |-> finalCols, triggerResize |-> TRUE],
                        callback) >>

moveTo(selectedCol, columns, action) ==
  LET locked == SelectSeq(columns, isLocked)
      toMove(column) == selectedCol = column.name /\ ~column.locked
      colsToMove == SelectSeq(columns, toMove)
      rest(column) == selectedCol # column.name /\ ~findName(locked, column.name)
      unselectedAndUnlockedCols == SelectSeq(columns, rest)
      finalCols == IF action = "front"
                   THEN locked \o colsToMove \o unselectedAndUnlockedCols
                   ELSE locked \o unselectedAndUnlockedCols \o colsToMove
      callback == buildCallback("update-column-position", selectedCol, action)
  IN  << PropagateState([columns |-> finalCols, triggerResize |-> TRUE],
                        callback) >>

\* lockCols that moves the selected columns without marking them locked
lockColsUnmarked(selectedCols, columns) ==
  LET currentlyLocked == SelectSeq(columns, isLocked)
      selected(column) == includes(selectedCols, column.name)
      newLocks == SelectSeq(columns, selected)
      locked == currentlyLocked \o newLocks
      notLocked(column) == ~findName(locked, column.name)
  IN  << PropagateState([columns |-> locked \o SelectSeq(columns, notLocked),
                         fixedColumnCount |-> Len(locked),
                         selectedCols |-> <<>>,
                         triggerResize |-> TRUE],
                        buildCallback("update-locked", FirstOf(selectedCols),
                                      "lock")) >>

lockCols(selectedCols, columns) ==
  LET currentlyLocked == SelectSeq(columns, isLocked)
      selected(column) == includes(selectedCols, column.name)
      newLocks == MapLocked(SelectSeq(columns, selected), TRUE)
      locked == currentlyLocked \o newLocks
      notLocked(column) == ~findName(locked, column.name)
      callback == buildCallback("update-locked", FirstOf(selectedCols), "lock")
  IN  << PropagateState([columns |-> locked \o SelectSeq(columns, notLocked),
                         fixedColumnCount |-> Len(locked),
                         selectedCols |-> <<>>,
                         triggerResize |-> TRUE],
                        callback) >>

\* unlockCols that puts the unlocked columns ahead of the ones still locked
unlockColsInFront(selectedCols, columns) ==
  LET currentlyLocked == SelectSeq(columns, isLocked)
      selected(column) == includes(selectedCols, column.name)
      unselected(column) == ~includes(selectedCols, column.name)
      unlocked == MapLocked(SelectSeq(currentlyLocked, selected), FALSE)
      locked == SelectSeq(currentlyLocked, unselected)
  IN  << PropagateState([columns |-> unlocked \o locked
                                       \o SelectSeq(columns, isUnlocked),
                         fixedColumnCount |-> Len(locked),
                         selectedCols |-> <<>>,
                         triggerResize |-> TRUE],
                        buildCallback("update-locked", FirstOf(selectedCols),
                                      "unlock")) >>

unlockCols(selectedCols, columns) ==
  LET currentlyLocked == SelectSeq(columns, isLocked)
      selected(column) == includes(selectedCols, column.name)
      unselected(column) == ~includes(selectedCols, column.name)
      unlocked == MapLocked(SelectSeq(currentlyLocked, selected), FALSE)
      locked == SelectSeq(currentlyLocked, unselected)
      callback == buildCallback("update-locked", FirstOf(selectedCols),
                                "unlock")
  IN  << PropagateState([columns |-> locked \o unlocked
                                       \o SelectSeq(columns, isUnlocked),
                         fixedColumnCount |-> Len(locked),
                         selectedCols |-> <<>>,
                         triggerResize |-> TRUE],
                        callback) >>

moveToFront(selectedCol, columns) == moveTo(selectedCol, columns, "front")

moveToBack(selectedCol, columns) == moveTo(selectedCol, columns, "back")

moveRight(selectedCol, columns) == moveOnePosition(selectedCol, columns, "right")

moveLeft(selectedCol, columns) == moveOnePosition(selectedCol, columns, "left")

(***************************************************************************)
(* Inputs                                                                  *)
(***************************************************************************)
\* Sequences of n distinct names
NameSeqs(n) ==
  {s \in [1..n -> Names] : \A i, j \in 1..n : i # j => s[i] # s[j]}

\* Column sequences of a dataset: unique names, the first k columns locked
ColumnSeqs ==
  UNION {{[i \in 1..n |-> ColumnDef(s[i], i <= k)] : s \in NameSeqs(n)} :
           <<n, k>> \in {nk \in (0..Cardinality(Names)) \X (0..Cardinality(Names)) :
                           nk[2] <= nk[1]}}

ColArgs == Names \cup {Absent}

\* selectedCols arguments: up to MaxSel distinct names, in any order
SelArgs ==
  UNION {{s \in [1..n -> ColArgs] : \A i, j \in 1..n : i # j => s[i] # s[j]} :
           n \in 0..MaxSel}

MoveOps == {"moveLeft", "moveRight", "moveToFront", "moveToBack"}

LockOps == {"lockCols", "unlockCols"}

\* The transformation op(arg, props) built from props.columns = columns, run
Run(op, arg, columns) ==
  CASE op = "moveLeft" -> moveLeft(arg, columns)
    [] op = "moveRight" -> moveRight(arg, columns)
    [] op = "moveToFront" -> moveToFront(arg, columns)
    [] op = "moveToBack" -> moveToBack(arg, columns)
    [] op = "lockCols" -> lockCols(arg, columns)
    [] op = "unlockCols" -> unlockCols(arg, columns)

(***************************************************************************)
(* The state container                                                     *)
(***************************************************************************)
\* Merge of a partial state patch into the view state
Merge(state, patch) ==
  [k \in DOMAIN state |-> IF k \in DOMAIN patch THEN patch[k] ELSE state[k]]

RECURSIVE MergeAll(_, _)
MergeAll(state, effects) ==
  IF effects = <<>> THEN state
  ELSE MergeAll(IF Head(effects).type = "propagateState"
                THEN Merge(state, Head(effects).patch) ELSE state,
                Tail(effects))

InitView(cols) ==
  [columns |-> cols,
   fixedColumnCount |-> Len(SelectSeq(cols, isLocked)),
   selectedCols |-> <<>>,
   triggerResize |-> FALSE]

None == [op |-> "none", arg |-> <<>>, input |-> <<>>, effects |-> <<>>]

Executed(op, arg, columns) ==
  [op |-> op, arg |-> arg, input |-> columns, effects |-> Run(op, arg, columns)]

NoDispatch == [fn |-> "none", transport |-> "none", caller |-> "none"]

InitWith(inputs) ==
  /\ \E cols \in inputs : view = InitView(cols)
  /\ prev = None
  /\ last = None
  /\ snapshot = view.columns
  /\ pending = <<>>
  /\ callbacks = <<>>
  /\ requests = <<>>
  /\ log = <<>>
  /\ disp = NoDispatch
  /\ logged = 0
  /\ called = 0

(***************************************************************************)
(* Spec: any sequence of transformations, each built from the current      *)
(* columns and run, the container merging its patch before the next one    *)
(***************************************************************************)
Init == InitWith(ColumnSeqs)

Step(op, arg) ==
  LET effects == Run(op, arg, view.columns)
  IN  /\ \A i \in 1..Len(effects) :
           effects[i].type = "propagateState"
             => Len(effects[i].patch.columns) <= MaxCols
      /\ view' = MergeAll(view, effects)
      /\ UNCHANGED <<prev, last, snapshot, pending, callbacks, requests, log,
                     disp, logged, called>>

MoveLeft == \E c \in ColArgs : Step("moveLeft", c)

MoveRight == \E c \in ColArgs : Step("moveRight", c)

MoveToFront == \E c \in ColArgs : Step("moveToFront", c)

MoveToBack == \E c \in ColArgs : Step("moveToBack", c)

LockCols == \E s \in SelArgs : Step("lockCols", s)

UnlockCols == \E s \in SelArgs : Step("unlockCols", s)

Next ==
  \/ MoveLeft
  \/ MoveRight
  \/ MoveToFront
  \/ MoveToBack
  \/ LockCols
  \/ UnlockCols

Spec == Init /\ [][Next]_vars

(***************************************************************************)
(* SpecFn: one transformation applied to a dataset's column sequence, and  *)
(* a second one built from the sequence the first one patched              *)
(***************************************************************************)
Apply(op, arg) ==
  LET e == Executed(op, arg, view.columns)
  IN  /\ prev' = last
      /\ last' = e
      /\ view' = MergeAll(view, e.effects)
      /\ UNCHANGED <<snapshot, pending, callbacks, requests, log, disp,
                     logged, called>>

ApplyFirst ==
  /\ last = None
  /\ \/ \E op \in MoveOps, c \in ColArgs : Apply(op, c)
     \/ \E op \in LockOps, s \in SelArgs : Apply(op, s)

ApplySecond ==
  /\ last # None
  /\ prev = None
  /\ \/ \E op \in MoveOps, c \in ColArgs : Apply(op, c)
     \/ \E op \in LockOps, s \in SelArgs : Apply(op, s)

NextFn == ApplyFirst \/ ApplySecond

SpecFn == Init /\ [][NextFn]_vars

(***************************************************************************)
(* SpecRace: transformations built from props.columns at the last render,  *)
(* run while the container merges patches and invokes callbacks later      *)
(***************************************************************************)
\* A transformation that reads the columns when it runs
ClosureColumnsLive(built, current) == current

\* const { columns, ... } = props, outside the returned function: the
\* transformation reads the columns it was built with, not the current ones
ClosureColumns(built, current) == built

RaceColumns ==
  {[i \in 1..3 |-> ColumnDef(<<"A", "B", "C">>[i], i <= k)] : k \in 0..3}

RaceSelArgs == {<<n>> : n \in Names}

InitRace == InitWith(RaceColumns)

Tagged(effects, type, id) ==
  LET sel == SelectSeq(effects, LAMBDA e : e.type = type)
  IN  [i \in 1..Len(sel) |-> [id |-> id, effect |-> sel[i]]]

Execute(op, arg) ==
  LET id == Len(log) + 1
      effects == Run(op, arg, ClosureColumns(snapshot, view.columns))
      fetched == Tagged(effects, "fetchJson", id)
  IN  /\ Len(log) < MaxExec
      /\ log' = Append(log, [op |-> op, arg |-> arg, snapshot |-> snapshot,
                             effects |-> effects])
      /\ pending' = pending \o Tagged(effects, "propagateState", id)
      /\ requests' = requests \o
           [i \in 1..Len(fetched) |->
              [id |-> id, request |-> fetched[i].effect.request]]
      /\ UNCHANGED <<view, prev, last, snapshot, callbacks, disp, logged,
                     called>>

ExecuteMove == \E op \in MoveOps, c \in Names : Execute(op, c)

ExecuteLock == \E op \in LockOps, s \in RaceSelArgs : Execute(op, s)

\* The container accepts the oldest patch and merges it into the view state
ContainerMerge ==
  /\ pending # <<>>
  /\ view' = Merge(view, Head(pending).effect.patch)
  /\ callbacks' = Append(callbacks, [id |-> Head(pending).id,
                                     callback |-> Head(pending).effect.callback])
  /\ pending' = Tail(pending)
  /\ UNCHANGED <<prev, last, snapshot, requests, log, disp, logged, called>>

\* The container invokes the completion callback of a merged patch: the
\* closure buildCallback returned calls fetchJson
ContainerInvoke ==
  /\ callbacks # <<>>
  /\ requests' = Append(requests, [id |-> Head(callbacks).id,
                                   request |-> Head(callbacks).callback])
  /\ callbacks' = Tail(callbacks)
  /\ UNCHANGED <<view, prev, last, snapshot, pending, log, disp, logged,
                 called>>

\* The view renders again: transformations are rebuilt from the current columns
Render ==
  /\ snapshot # view.columns
  /\ snapshot' = view.columns
  /\ UNCHANGED <<view, prev, last, pending, callbacks, requests, log, disp,
                 logged, called>>

NextRace ==
  \/ ExecuteMove
  \/ ExecuteLock
  \/ ContainerMerge
  \/ ContainerInvoke
  \/ Render

SpecRace == InitRace /\ [][NextRace]_vars

(***************************************************************************)
(* SpecDispatch: the dispatcher functions against a transport that may     *)
(* fail                                                                    *)
(***************************************************************************)
Outcome(caller, logs, calls) ==
  [caller |-> caller, logException |-> logs, callback |-> calls]

\* fetchJson(url, callback): hands the response to the callback, or raises
FetchJsonOutcomes == {"ok", "raises"}

\* fetchPost(url, body, callback): as fetchJson
FetchPostOutcomes == {"ok", "raises"}

\* fetchJsonPromise(url): a promise that resolves or rejects, or raises
FetchJsonPromiseOutcomes == {"resolves", "rejects", "raises"}

\* postDataToService is async: a failure of axios.post rejects its promise
PostDataToServiceOutcomes == {"resolves", "rejects"}

\* fn(...) { fetchJson(url, callback); } with nothing around the call
fetchJsonBare(t) ==
  IF t = "raises" THEN Outcome("throws", 0, 0) ELSE Outcome("returns", 0, 1)

\* fetchJsonPromise(url).then(callback).catch(logException)
fetchJsonPromiseChain(t) ==
  CASE t = "raises" -> Outcome("throws", 0, 0)
    [] t = "rejects" -> Outcome("returns", 1, 0)
    [] t = "resolves" -> Outcome("returns", 0, 1)

updateSettings(t) == fetchJsonPromiseChain(t)

dropFilteredRows(t) == fetchJsonPromiseChain(t)

moveFiltersToCustom(t) == fetchJsonBare(t)

renameColumn(t) == fetchJsonBare(t)

updateFormats(t) == fetchJsonBare(t)

saveRangeHighlights(t) ==
  IF t = "raises" THEN Outcome("returns", 1, 0) ELSE Outcome("returns", 0, 1)

editCell(t) == fetchJsonBare(t)

updateTheme(t) == fetchJsonBare(t)

updateQueryEngine(t) == fetchJsonBare(t)

updatePinMenu(t) == fetchJsonBare(t)

updateLanguage(t) == fetchJsonBare(t)

updateMaxColumnWidth(t) == fetchJsonBare(t)

updateMaxRowHeight(t) == fetchJsonBare(t)

loadFilteredRanges(t) == fetchJsonPromiseChain(t)

\* fetchJson(url) without a callback
deleteCols(t) ==
  IF t = "raises" THEN Outcome("throws", 0, 0) ELSE Outcome("returns", 0, 0)

deleteColumn(t) == deleteCols(t)

deleteColumns(t) == deleteCols(t)

\* try { return await postDataToService(...) } catch (e) { logException(e) }
persistVisibility(t) ==
  IF t = "rejects" THEN Outcome("returns", 1, 0) ELSE Outcome("returns", 0, 0)

updateVisibility(t) == persistVisibility(t)

toggleVisibility(t) == persistVisibility(t)

Dispatchers ==
  {"updateSettings", "dropFilteredRows", "moveFiltersToCustom", "renameColumn",
   "updateFormats", "saveRangeHighlights", "editCell", "updateTheme",
   "updateQueryEngine", "updatePinMenu", "updateLanguage",
   "updateMaxColumnWidth", "updateMaxRowHeight", "loadFilteredRanges",
   "deleteColumn", "deleteColumns", "updateVisibility", "toggleVisibility"}

\* The transport call each dispatcher makes
TransportOutcomes(fn) ==
  CASE fn \in {"updateSettings", "dropFilteredRows", "loadFilteredRanges"}
         -> FetchJsonPromiseOutcomes
    [] fn = "saveRangeHighlights" -> FetchPostOutcomes
    [] fn \in {"updateVisibility", "toggleVisibility"}
         -> PostDataToServiceOutcomes
    [] OTHER -> FetchJsonOutcomes

Dispatcher(fn, t) ==
  CASE fn = "updateSettings" -> updateSettings(t)
    [] fn = "dropFilteredRows" -> dropFilteredRows(t)
    [] fn = "moveFiltersToCustom" -> moveFiltersToCustom(t)
    [] fn = "renameColumn" -> renameColumn(t)
    [] fn = "updateFormats" -> updateFormats(t)
    [] fn = "saveRangeHighlights" -> saveRangeHighlights(t)
    [] fn = "editCell" -> editCell(t)
    [] fn = "updateTheme" -> updateTheme(t)
    [] fn = "updateQueryEngine" -> updateQueryEngine(t)
    [] fn = "updatePinMenu" -> updatePinMenu(t)
    [] fn = "updateLanguage" -> updateLanguage(t)
    [] fn = "updateMaxColumnWidth" -> updateMaxColumnWidth(t)
    [] fn = "updateMaxRowHeight" -> updateMaxRowHeight(t)
    [] fn = "loadFilteredRanges" -> loadFilteredRanges(t)
    [] fn = "deleteColumn" -> deleteColumn(t)
    [] fn = "deleteColumns" -> deleteColumns(t)
    [] fn = "updateVisibility" -> updateVisibility(t)
    [] fn = "toggleVisibility" -> toggleVisibility(t)

Dispatch(fn) ==
  \E t \in TransportOutcomes(fn) :
    LET o == Dispatcher(fn, t)
    IN  /\ logged + o.logException <= MaxLogged
        /\ called + o.callback <= MaxCalled
        /\ disp' = [fn |-> fn, transport |-> t, caller |-> o.caller]
        /\ logged' = logged + o.logException
        /\ called' = called + o.callback
        /\ UNCHANGED <<view, prev, last, snapshot, pending, callbacks,
                       requests, log>>

InitDispatch == InitWith({<<>>})

NextDispatch == \E fn \in Dispatchers : Dispatch(fn)

SpecDispatch == InitDispatch /\ [][NextDispatch]_vars

(***************************************************************************)
(* Properties                                                              *)
(***************************************************************************)
NamesOf(cols) == [i \in 1..Len(cols) |-> cols[i].name]

Range(seq) == {seq[i] : i \in 1..Len(seq)}

LockedCount(cols) == Len(SelectSeq(cols, isLocked))

UnlockedNames(cols) == NamesOf(SelectSeq(cols, isUnlocked))

LockedNames(cols) == NamesOf(SelectSeq(cols, isLocked))

UniqueNames(cols) ==
  \A i, j \in 1..Len(cols) : i # j => cols[i].name # cols[j].name

Partitioned(cols) ==
  \A i, j \in 1..Len(cols) : (i < j /\ cols[j].locked) => cols[i].locked

Occurrences(seq, x) == Cardinality({i \in 1..Len(seq) : seq[i] = x})

PermutationByName(a, b) ==
  /\ Len(a) = Len(b)
  /\ \A n \in Range(NamesOf(a)) \cup Range(NamesOf(b)) :
       Occurrences(NamesOf(a), n) = Occurrences(NamesOf(b), n)

Without(cols, name) == SelectSeq(cols, LAMBDA c : c.name # name)

IsMoveOne(r) == r.op \in {"moveLeft", "moveRight"}

Propagated(r) == r.effects # <<>>

PatchOf(r) == r.effects[1].patch

\* C1: after any sequence of moveLeft, moveRight, moveToFront, moveToBack,
\* lockCols and unlockCols, each built from the current sequence, the columns
\* in view state are a locked prefix followed by an unlocked suffix: no locked
\* descriptor comes after one that is not locked.
C1_LockedPrefix == Partitioned(view.columns)

C1_Witness ==
  /\ view.triggerResize
  /\ LockedCount(view.columns) >= 1
  /\ Len(view.columns) - LockedCount(view.columns) >= 2
  /\ view.fixedColumnCount = LockedCount(view.columns)

\* C2: moveLeft or moveRight with a selectedCol that is locked is a no-op:
\* propagateState is not called (so no patch and no request) and the column
\* sequence is unchanged.
C2_LockedMoveIsNoOp ==
  (IsMoveOne(last) /\ last.arg \in Range(LockedNames(last.input)))
    => (~Propagated(last) /\ view.columns = last.input)

\* C3 as stated: moveToFront(col) places every col present in the sequence,
\* locked or not, at index k, the number of locked columns, and keeps the
\* relative order of every other column.
C3_FrontOfAnyColumn ==
  (last.op = "moveToFront" /\ last.arg \in Range(NamesOf(last.input)))
    => /\ Propagated(last)
       /\ LET out == PatchOf(last).columns
              k == LockedCount(last.input)
          IN  /\ Len(out) > k
              /\ out[k + 1].name = last.arg
              /\ Without(out, last.arg) = Without(last.input, last.arg)

\* C3 amended: moveToFront(col) places every col present in the sequence and
\* not locked at index k, the number of locked columns, and every other
\* column keeps its relative order.
C3_FrontOfUnlockedColumn ==
  (last.op = "moveToFront" /\ last.arg \in Range(UnlockedNames(last.input)))
    => /\ Propagated(last)
       /\ LET out == PatchOf(last).columns
              k == LockedCount(last.input)
          IN  /\ Len(out) > k
              /\ out[k + 1].name = last.arg
              /\ ~out[k + 1].locked
              /\ LockedCount(out) = k
              /\ Without(out, last.arg) = Without(last.input, last.arg)
              /\ view.columns = out

C3_Witness ==
  /\ last.op = "moveToFront"
  /\ last.arg \in Range(UnlockedNames(last.input))
  /\ LockedCount(last.input) >= 1
  /\ findIndex(last.input, last.arg) > LockedCount(last.input)
  /\ view.columns # last.input

\* The columns of cols whose name selectedCols lists, in the order of cols
SelectedIn(cols, selectedCols) ==
  SelectSeq(cols, LAMBDA c : includes(selectedCols, c.name))

UnselectedIn(cols, selectedCols) ==
  SelectSeq(cols, LAMBDA c : ~includes(selectedCols, c.name))

LockColsOnUnlocked ==
  /\ last.op = "lockCols"
  /\ LockedCount(last.input) = 0

\* C4 as stated: lockCols(selectedCols) on a sequence with no locked column
\* patches a sequence whose locked prefix is the selected columns in the order
\* selectedCols lists them, followed by the other columns in their order, with
\* fixedColumnCount the number of selected columns and selectedCols empty.
C4_PrefixInSelectionOrder ==
  (LockColsOnUnlocked /\ Range(last.arg) \subseteq Range(NamesOf(last.input)))
    => /\ Propagated(last)
       /\ LET out == PatchOf(last).columns
              n == Len(last.arg)
          IN  /\ Len(out) >= n
              /\ SubSeq(NamesOf(out), 1, n) = last.arg
              /\ \A i \in 1..n : out[i].locked
              /\ SubSeq(out, n + 1, Len(out))
                   = UnselectedIn(last.input, last.arg)
              /\ PatchOf(last).fixedColumnCount = n
              /\ PatchOf(last).selectedCols = <<>>

\* C4 amended: lockCols(selectedCols) on a sequence with no locked column
\* patches a sequence whose locked prefix is the columns selectedCols names,
\* in the order they have in the column sequence, each with locked = true,
\* followed by the other columns in their order, with fixedColumnCount the
\* number of those columns and selectedCols empty.
C4_PrefixInColumnOrder ==
  LockColsOnUnlocked
    => /\ Propagated(last)
       /\ LET out == PatchOf(last).columns
              chosen == SelectedIn(last.input, last.arg)
              n == Len(chosen)
          IN  /\ Len(out) = Len(last.input)
              /\ SubSeq(NamesOf(out), 1, n) = NamesOf(chosen)
              /\ \A i \in 1..n : out[i].locked
              /\ SubSeq(out, n + 1, Len(out))
                   = UnselectedIn(last.input, last.arg)
              /\ PatchOf(last).fixedColumnCount = n
              /\ PatchOf(last).selectedCols = <<>>
              /\ view.columns = out
              /\ view.fixedColumnCount = n

C4_Witness ==
  /\ LockColsOnUnlocked
  /\ Len(last.arg) = 2
  /\ Range(last.arg) \subseteq Range(NamesOf(last.input))
  /\ Len(last.input) = 3
  /\ SubSeq(NamesOf(view.columns), 1, 2) # last.arg
  /\ view.fixedColumnCount = 2

AtRightBoundary(r) ==
  /\ r.op = "moveRight"
  /\ UnlockedNames(r.input) # <<>>
  /\ r.arg = UnlockedNames(r.input)[Len(UnlockedNames(r.input))]

AtLeftBoundary(r) ==
  /\ r.op = "moveLeft"
  /\ UnlockedNames(r.input) # <<>>
  /\ r.arg = UnlockedNames(r.input)[1]

\* C5: moveRight on the last unlocked column and moveLeft on the first
\* unlocked column are no-ops: propagateState is not called (so there is no
\* patch and no request) and the view state is unchanged.
C5_BoundaryNoOp ==
  (AtRightBoundary(last) \/ AtLeftBoundary(last))
    => (~Propagated(last) /\ view.columns = last.input)

C5_Witness ==
  /\ AtLeftBoundary(prev)
  /\ AtRightBoundary(last)
  /\ LockedCount(last.input) >= 1
  /\ Len(UnlockedNames(last.input)) >= 2

LeftThenRight ==
  /\ prev.op = "moveLeft"
  /\ prev.arg \in Range(UnlockedNames(prev.input))
  /\ prev.arg # UnlockedNames(prev.input)[1]
  /\ last.op = "moveRight"
  /\ last.arg = prev.arg

\* C6: for an unlocked column that is not the first unlocked one, moveLeft
\* followed by moveRight of the same column, built from the sequence the
\* first call patched, restores the original sequence.
C6_LeftRightRestores ==
  LeftThenRight
    => /\ Propagated(prev)
       /\ last.input = PatchOf(prev).columns
       /\ last.input # prev.input
       /\ Propagated(last)
       /\ view.columns = prev.input

C6_Witness ==
  /\ LeftThenRight
  /\ LockedCount(prev.input) >= 1
  /\ Len(prev.input) = 3
  /\ view.columns = prev.input

\* C10: on a sequence with unique names every transformation, whatever names
\* are selected, patches a permutation of its input by name: same length,
\* every name exactly once.
C10_PatchIsPermutation ==
  (last.op # "none" /\ UniqueNames(last.input) /\ Propagated(last))
    => PermutationByName(PatchOf(last).columns, last.input)

IdsOf(queue) == {queue[i].id : i \in 1..Len(queue)}

RequestsOf(id) == SelectSeq(requests, LAMBDA r : r.id = id)

PropagateCalls(e) == Len(SelectSeq(e.effects, LAMBDA x : x.type = "propagateState"))

FetchCalls(e) == Len(SelectSeq(e.effects, LAMBDA x : x.type = "fetchJson"))

\* A mutating execution: moveToFront, moveToBack, lockCols, unlockCols, or
\* moveLeft / moveRight of an unlocked column that is not at that boundary
Mutating(e) ==
  \/ e.op \in {"moveToFront", "moveToBack", "lockCols", "unlockCols"}
  \/ /\ e.op \in {"moveLeft", "moveRight"}
     /\ e.arg \in Range(UnlockedNames(e.snapshot))
     /\ e.op = "moveLeft" => UnlockedNames(e.snapshot)[1] # e.arg
     /\ e.op = "moveRight" =>
          UnlockedNames(e.snapshot)[Len(UnlockedNames(e.snapshot))] # e.arg

RouteOf(op) ==
  IF op \in LockOps THEN "update-locked" ELSE "update-column-position"

\* C7: every execution of a mutating transformation calls propagateState
\* exactly once and issues no request itself; its one persistence request
\* (update-column-position or update-locked) is sent only once the container
\* has merged the patch and invoked the callback, and has been sent exactly
\* once when the container has done so; while the callback is not invoked no
\* request is sent.
C7_OneRequestAfterPatch ==
  \A id \in 1..Len(log) :
    LET e == log[id]
        sent == RequestsOf(id)
        held == id \in IdsOf(pending) \cup IdsOf(callbacks)
    IN  /\ FetchCalls(e) = 0
        /\ PropagateCalls(e) <= 1
        /\ Mutating(e) => PropagateCalls(e) = 1
        /\ Len(sent) <= PropagateCalls(e)
        /\ held => sent = <<>>
        /\ (Mutating(e) /\ ~held) => Len(sent) = 1
        /\ \A i \in 1..Len(sent) : sent[i].request.route = RouteOf(e.op)

C7_Witness ==
  /\ Len(log) = 2
  /\ Mutating(log[1])
  /\ Mutating(log[2])
  /\ Len(RequestsOf(1)) = 1
  /\ 2 \in IdsOf(pending)
  /\ view.columns = log[1].effects[1].patch.columns

Drained == pending = <<>> /\ callbacks = <<>>

SameSnapshot == \A i \in 1..Len(log) : log[i].snapshot = log[1].snapshot

\* The transformation of execution i run alone on the snapshot it was built from
Alone(i) == Run(log[i].op, log[i].arg, log[i].snapshot)

ColumnsAfter(effects, cols) ==
  IF effects = <<>> THEN cols ELSE effects[1].patch.columns

Patching == {i \in 1..Len(log) : Alone(i) # <<>>}

RequestIds == [i \in 1..Len(requests) |-> requests[i].id]

\* C9 as stated: when two transformations built from the same snapshot have
\* both been executed, the final columns in view state are the result of the
\* second one applied alone to the snapshot, and both persistence requests
\* have been sent, in call order.
C9_SecondAloneBothSent ==
  (Len(log) = 2 /\ SameSnapshot /\ Drained)
    => /\ view.columns = ColumnsAfter(Alone(2), log[2].snapshot)
       /\ RequestIds = <<1, 2>>

\* C9 amended: when transformations built from the same snapshot have all
\* been executed and the container has merged their patches and invoked their
\* callbacks, the final columns in view state are the result of the last one
\* that patched (a boundary no-op of moveLeft / moveRight patches nothing and
\* sends nothing), applied alone to the snapshot, and the requests sent are
\* those of the executions that patched, in call order.
C9_LastPatchAloneWins ==
  (Len(log) >= 2 /\ SameSnapshot /\ Drained)
    => /\ \A i \in Patching :
            (\A j \in Patching : j <= i)
              => view.columns = Alone(i)[1].patch.columns
       /\ Range(RequestIds) = Patching
       /\ \A i, j \in 1..Len(requests) : i < j => requests[i].id < requests[j].id
       /\ \A i \in 1..Len(requests) :
            requests[i].request = Alone(requests[i].id)[1].callback

C9_Witness ==
  /\ Len(log) = 2
  /\ SameSnapshot
  /\ Drained
  /\ Patching = {1, 2}
  /\ Alone(1)[1].patch.columns # log[1].snapshot
  /\ view.columns # Alone(1)[1].patch.columns
  /\ view.columns = Alone(2)[1].patch.columns
  /\ RequestIds = <<1, 2>>

\* C8: no dispatcher function throws to its caller, even when the transport
\* call it makes raises.
C8_DispatchersNeverThrow == disp.caller # "throws"

====
